---- MODULE Spec2Model ----
(***************************************************************************)
(* A model of python-mal's lazily loaded resources: Anime, Manga, Person   *)
(* and MediaList handles, their constructors, the page parsers that build  *)
(* an attribute mapping from a fetched page, the fetch routines load /     *)
(* load_stats / load_characters, and the loadable attribute reads.         *)
(*                                                                         *)
(* A page is modelled by what the parsers look for in it: whether it holds *)
(* the "badresult" not-found element, and the set of its deviations from   *)
(* a well-formed page (a missing label, a missing structural element, a    *)
(* value given as Unknown).  A committed attribute value is either None or *)
(* a non-None value; the model keeps the distinction the cache tests.      *)
(***************************************************************************)
EXTENDS Integers, Sequences, FiniteSets, TLC

VARIABLES
    handles,    \* the resource objects the caller holds: handle name -> object
    suppress,   \* session.suppress_parse_exceptions
    requests,   \* number of session.session.get calls issued so far
    last        \* what the most recent operation was and how it ended

vars == <<handles, suppress, requests, last>>

(***************************************************************************)
(* Bounds of the model.                                                    *)
(***************************************************************************)
MaxId == 2          \* ids given to constructors range over -1 .. MaxId
MaxRequests == 2    \* operations that fetch start only below this count

\* len(self.username) < 4 is rejected (media_list.py:51)
MinUsernameLen == 4

Handles == {"a", "b"}

(***************************************************************************)
(* Python values.                                                          *)
(***************************************************************************)
None == "None"
Val == "v"                  \* a parsed, non-None attribute value
InvalidName == "Invalid"    \* the heading MAL gives a person that does not exist
FromTable == "t"             \* the mapping parse_related_media builds from the related table
OneTuple == "(v,)"          \* a tuple of length 1; Val for a date range is (start, end)

NoError == "none"

\* Arguments a caller may pass as an id.  v is the value int() gives it: the
\* float 1.5 is [t |-> "float", v |-> 1].
IdArgs ==
    {[t |-> "int", v |-> n] : n \in -1 .. MaxId}
        \cup {[t |-> "float", v |-> 1], [t |-> "str", v |-> 1], [t |-> "NoneType", v |-> 0]}

\* Arguments a caller may pass as a username: a unicode string, a byte string
\* (utf8: whether its bytes decode as UTF-8) or None.
UsernameArgs ==
    {[t |-> "unicode", len |-> n, utf8 |-> TRUE] : n \in (MinUsernameLen - 1) .. MinUsernameLen}
        \cup {[t |-> "str", len |-> MinUsernameLen, utf8 |-> u] : u \in BOOLEAN}
        \cup {[t |-> "NoneType", len |-> 0, utf8 |-> TRUE]}

(***************************************************************************)
(* Classes and the cache slots their constructors create.                  *)
(***************************************************************************)
MediaClasses == {"Anime", "Manga"}
ListClasses == {"AnimeList", "MangaList"}
NestedClasses == {"Genre", "Publication", "Character"}
IdKeyedClasses == MediaClasses \cup {"Person"} \cup NestedClasses
Classes == IdKeyedClasses \cup ListClasses

MediaSlots ==
    {"title", "picture", "alternative_titles", "type", "status", "genres", "score",
     "rank", "popularity", "members", "favorites", "popular_tags", "synopsis",
     "related", "characters", "score_stats", "status_stats"}

AnimeSlots == {"episodes", "aired", "producers", "duration", "rating", "voice_actors", "staff"}

MangaSlots == {"volumes", "chapters", "published", "authors", "serialization"}

PersonSlots == {"name", "voice_acting_roles", "anime_staff_positions", "published_manga"}

MediaListSlots == {"list", "stats"}

NestedSlots == {"name"}

NoHandle == [cls |-> "none"]

\* a constructor that fills its slots
Preset(keys) == [k \in keys |-> Val]

\* self._title = None, self._picture = None, ...
Unset(keys) == [k \in keys |-> None]

\* isinstance(id, int) and int(id) >= 1
ValidId(arg) == arg.t = "int" /\ arg.v >= 1

\* isinstance(username, unicode) and len(username) >= 4
ValidUsername(arg) == arg.t = "unicode" /\ arg.len >= MinUsernameLen

Raised(e) == [err |-> e, obj |-> NoHandle]

Built(cls, arg, ident, slots) ==
    [err |-> NoError,
     obj |-> [cls |-> cls, ctor |-> arg, ident |-> ident, slots |-> slots]]

\* a constructor that stores the id under another attribute name
MediaInitMediaId(cls, arg) ==
    IF ~ValidId(arg)
    THEN Raised("InvalidMediaError")
    ELSE Built(cls, arg, [media_id |-> arg.v], Unset(MediaSlots))

\* Media.__init__: stores the id, validates it, creates the media slots.
MediaInit(cls, arg) ==
    IF ~ValidId(arg)
    THEN Raised("InvalidMediaError")
    ELSE Built(cls, arg, [id |-> arg.v], Unset(MediaSlots))

\* Anime.__init__: validates, runs Media.__init__, adds the anime slots.
AnimeInit(arg) ==
    IF ~ValidId(arg)
    THEN Raised("InvalidAnimeError")
    ELSE LET m == MediaInit("Anime", arg)
         IN  IF m.err # NoError THEN m
             ELSE [m EXCEPT !.obj.slots = Unset(MediaSlots \cup AnimeSlots)]

\* Manga.__init__: validates, runs Media.__init__, adds the manga slots.
MangaInit(arg) ==
    IF ~ValidId(arg)
    THEN Raised("InvalidMangaError")
    ELSE LET m == MediaInit("Manga", arg)
         IN  IF m.err # NoError THEN m
             ELSE [m EXCEPT !.obj.slots = Unset(MediaSlots \cup MangaSlots)]

\* Person.__init__
PersonInit(arg) ==
    IF ~ValidId(arg)
    THEN Raised("InvalidPersonError")
    ELSE Built("Person", arg, [id |-> arg.v], Unset(PersonSlots))

\* InvalidMediaListError.__init__: a username that is not unicode is decoded
\* with str(username).decode('utf-8'), which raises on bytes that are not UTF-8.
InvalidMediaListErrorInit(arg) ==
    IF arg.t = "unicode" \/ arg.utf8
    THEN "InvalidMediaListError"
    ELSE "UnicodeDecodeError"

\* MediaList.__init__ (through a concrete list class)
MediaListInit(cls, arg) ==
    IF ~ValidUsername(arg)
    THEN Raised(InvalidMediaListErrorInit(arg))
    ELSE Built(cls, arg, [username |-> arg], Unset(MediaListSlots))

\* The nested resources a parser refers to (genre, publication, character):
\* ID-keyed handles with a name slot.
NestedInit(cls, arg) ==
    IF ~ValidId(arg)
    THEN Raised("Invalid" \o cls \o "Error")
    ELSE Built(cls, arg, [id |-> arg.v], Unset(NestedSlots))

\* session.<type>(identity): the session builds the resource of that class.
New(cls, arg) ==
    CASE cls = "Anime" -> AnimeInit(arg)
      [] cls = "Manga" -> MangaInit(arg)
      [] cls = "Person" -> PersonInit(arg)
      [] cls \in ListClasses -> MediaListInit(cls, arg)
      [] OTHER -> NestedInit(cls, arg)

ArgsOf(cls) == IF cls \in ListClasses THEN UsernameArgs ELSE IdArgs

(***************************************************************************)
(* Base: the attribute cache update, equality and hashing.                 *)
(***************************************************************************)
\* Base.set(attr_dict): every key k of the mapping is stored in slot _k.
BaseSet(obj, info) ==
    [obj EXCEPT !.slots =
        [k \in DOMAIN obj.slots \cup DOMAIN info |->
            IF k \in DOMAIN info THEN info[k] ELSE obj.slots[k]]]

\* A name written with two leading underscores inside a class body is stored
\* under the mangled name _<Class><name>.
Mangled(owner, name) ==
    IF Len(name) >= 2 /\ SubSeq(name, 1, 2) = "__" THEN "_" \o owner \o name ELSE name

\* The class attributes the source declares for the identity: MediaList
\* writes __id_attribute = "username" in its class body.
DeclaredClassAttrs(cls) ==
    IF cls \in ListClasses
    THEN {[name |-> Mangled("MediaList", "__id_attribute"), value |-> "username"]}
    ELSE {}

\* Base reads self._id_attribute, which is "id" unless a class overrides it.
IdAttribute(cls) ==
    LET over == {d \in DeclaredClassAttrs(cls) : d.name = "_id_attribute"}
    IN  IF over = {} THEN "id" ELSE (CHOOSE d \in over : TRUE).value

\* getattr(obj, name) on the identity attributes of an object
HasAttr(obj, name) == name \in DOMAIN obj.ident

\* Base.__eq__: isinstance(other, self.__class__) and
\* getattr(self, id_attribute) == getattr(other, id_attribute)
Eq(x, y) ==
    IF x.cls # y.cls THEN "False"
    ELSE IF ~HasAttr(x, IdAttribute(x.cls)) \/ ~HasAttr(y, IdAttribute(y.cls))
         THEN "AttributeError"
         ELSE IF x.ident[IdAttribute(x.cls)] = y.ident[IdAttribute(y.cls)]
              THEN "True" ELSE "False"

\* Base.__hash__: the hash of "<Class>-<identity>"
Hash(x) ==
    IF ~HasAttr(x, IdAttribute(x.cls))
    THEN <<"AttributeError">>
    ELSE <<x.cls, x.ident[IdAttribute(x.cls)]>>

(***************************************************************************)
(* Pages.  A page is [bad, dev]: bad says the page holds the not-found     *)
(* marker (the badresult element of a media page, the heading "Invalid"    *)
(* of a person page); dev is the set of its deviations from a well-formed  *)
(* page.  A deviation named after an attribute says the label or element   *)
(* that attribute is read from is missing.                                 *)
(***************************************************************************)
\* Deviations Media.parse_sidebar and Media.parse are sensitive to.
MediaTokens ==
    {"no_h1",               \* no div#contentWrapper h1
     "h1_bare",             \* the h1 holds no div and there is no h1.h1 span
     "no_info_panel",       \* nothing matches div#content table td
     "picture", "type", "status", "genres", "score", "rank", "popularity",
     "members", "favorites",
     "no_tags_header",      \* no "Popular Tags" header: tags are read from Genres
     "synopsis",
     "no_related",          \* neither a "Related <Type>" header nor a related table
     "no_related_header",   \* no "Related <Type>" header; the related table is there
     "related_truncated"}   \* a related link with no relation-type label before it

AnimeTokens ==
    {"episodes", "episodes_unknown", "aired",
     "aired_single",        \* Aired: gives one date, with no " to "
     "producers", "duration", "rating"}

MangaTokens ==
    {"no_name_span",        \* no span with itemprop=name
     "volumes", "volumes_unknown", "chapters", "chapters_unknown", "published",
     "published_single",    \* Published: gives one date, with no " to "
     "authors", "serialization",
     "no_serial_link"}      \* Serialization: present, with no publication link

\* Deviations of the characters section of a characters page.
AnimeCharacterTokens == {"bad_char_row", "bad_staff_row"}

MangaCharacterTokens == {"bad_char_row", "no_char_header"}

PersonTokens ==
    {"no_h1",               \* nothing matches div#contentWrapper h1.h1
     "no_va_roles",         \* no "Voice Acting Roles" header, or a row without a character
     "bad_va_row",          \* a voice acting row whose role cell is missing
     "no_positions_header", \* no "Anime Staff Positions" header
     "no_positions"}        \* the header is there, with no position rows

\* Pages with two deviations, for the cases where one deviation changes what
\* another does: the tags fallback reads Genres, and the first failure of two
\* decides which error a fetch raises.
TokenPairs ==
    {{"no_tags_header", "genres"}, {"picture", "favorites"}, {"no_h1", "no_info_panel"},
     {"no_va_roles", "no_positions_header"}}

DevSets(tokens) ==
    {{}} \cup {{t} : t \in tokens} \cup {d \in TokenPairs : d \subseteq tokens}

PagesOver(tokens) == {[bad |-> b, dev |-> d] : b \in BOOLEAN, d \in DevSets(tokens)}

\* The pages a request for (class, page variant) may return.  The stats
\* parser stops at the info panel, so only the deviations read before it
\* tell stats pages apart.  A person page whose heading reads "Invalid" has
\* a heading.
Pages(cls, kind) ==
    CASE cls = "Person" -> {p \in PagesOver(PersonTokens) : ~(p.bad /\ "no_h1" \in p.dev)}
      [] cls = "Anime" /\ kind = "main" -> PagesOver(MediaTokens \cup AnimeTokens)
      [] cls = "Anime" /\ kind = "characters" ->
            PagesOver(MediaTokens \cup AnimeTokens \cup AnimeCharacterTokens)
      [] cls = "Anime" /\ kind = "stats" -> PagesOver({"no_h1", "h1_bare", "no_info_panel"})
      [] cls = "Manga" /\ kind = "main" -> PagesOver(MediaTokens \cup MangaTokens)
      [] cls = "Manga" /\ kind = "characters" ->
            PagesOver(MediaTokens \cup MangaTokens \cup MangaCharacterTokens)
      [] cls = "Manga" /\ kind = "stats" ->
            PagesOver({"no_h1", "h1_bare", "no_info_panel", "no_name_span"})
      [] OTHER -> {}

NoPage == [bad |-> FALSE, dev |-> {"(no page)"}]

(***************************************************************************)
(* Parsers.  A parser runs its blocks in source order over a parse state   *)
(* [err, info, tag]: err is the exception that escaped (NoError while none *)
(* has), info the attribute mapping built so far, tag what title_tag is    *)
(* bound to (unbound, none, h1).  A block inside try/except with           *)
(* "if not self.session.suppress_parse_exceptions: raise" is guarded.      *)
(***************************************************************************)
EmptyInfo == [k \in {} |-> None]

StartParse == [err |-> NoError, info |-> EmptyInfo, tag |-> "unbound"]

Put(s, k, v) ==
    [s EXCEPT !.info = [x \in DOMAIN s.info \cup {k} |-> IF x = k THEN v ELSE s.info[x]]]

\* an exception outside every try block
Raise(s, e) == [s EXCEPT !.err = e]

\* a block left without its try/except
Unguarded(s, sup, e) == Raise(s, e)

\* an except block that never re-raises
Swallowed(s, sup, e) == s

\* except: if not self.session.suppress_parse_exceptions: raise
Guarded(s, sup, e) == IF sup THEN s ELSE Raise(s, e)

\* a parser that never looks for the badresult element
BadResultIgnored(s, p, e) == s

\* error_tag = page.find(u'div', {'class': 'badresult'}); if error_tag: raise
BadResult(s, p, e) == IF p.bad THEN Raise(s, e) ELSE s

\* A guarded block that reads attribute k from its label: the label missing
\* raises e inside the block, otherwise the value is stored.
Field(s, p, sup, k, e) ==
    IF k \in p.dev THEN Guarded(s, sup, e) ELSE Put(s, k, Val)

\* The first strategy of Media.parse for related: the links under the
\* "Related <Type>" header, None without the header.
RelatedUnderHeader(p) ==
    IF {"no_related", "no_related_header"} \cap p.dev # {} THEN None ELSE Val

\* Media.parse_related_media: the rows of the related table, None without it.
ParseRelatedMedia(p) == IF "no_related" \in p.dev THEN None ELSE FromTable

\* a chain in which the second strategy overrides the first
RelatedSecondWins(first, second) == IF second # None THEN second ELSE first

\* if media_info[u'related'] is None:
\*     media_info[u'related'] = self.parse_related_media(media_page_original)
RelatedChain(first, second) == IF first = None THEN second ELSE first

\* One block of a parser.  cls is the class of the parsing object, p the page,
\* sup the suppression flag, orig whether the original DOM was passed.
Block(name, s, cls, p, sup, orig) ==
    CASE \* Anime.parse_sidebar, lines 94-105
         name = "anime_badresult" ->
            BadResult(s, p, "InvalidAnimeError")
      [] name = "anime_title_check" ->
            IF "no_h1" \in p.dev THEN Raise(s, "AttributeError")
            ELSE IF "h1_bare" \in p.dev THEN Raise(s, "MalformedAnimePageError")
            ELSE s
         \* Manga.parse_sidebar, lines 87-99
      [] name = "manga_badresult" ->
            BadResult(s, p, "InvalidMangaError")
      [] name = "manga_title_check" ->
            IF "no_name_span" \in p.dev THEN Guarded(s, sup, "MalformedMangaPageError") ELSE s
         \* Media.parse_sidebar, lines 143-328
      [] name = "media_badresult" ->
            BadResult(s, p, "InvalidMediaError")
      [] name = "media_title_tag" ->
            IF "no_h1" \in p.dev THEN Guarded([s EXCEPT !.tag = "none"], sup, "AttributeError")
            ELSE IF "h1_bare" \in p.dev
                 THEN Guarded([s EXCEPT !.tag = "h1"], sup,
                              IF orig THEN "MalformedMediaPageError" ELSE "AttributeError")
                 ELSE [s EXCEPT !.tag = "h1"]
      [] name = "media_title" ->
            IF s.tag = "h1" THEN Put(s, "title", Val)
            ELSE Guarded(s, sup, IF s.tag = "none" THEN "AttributeError" ELSE "NameError")
      [] name = "media_info_panel" ->
            IF ~orig THEN Raise(s, "AttributeError")
            ELSE IF "no_info_panel" \in p.dev THEN Raise(s, "IndexError")
            ELSE s
      [] name = "picture" -> Field(s, p, sup, "picture", "AttributeError")
      [] name = "alternative_titles" -> Put(s, "alternative_titles", Val)
      [] name = "type" -> Field(s, p, sup, "type", "IndexError")
      [] name = "status" -> Field(s, p, sup, "status", "IndexError")
      [] name = "genres" -> Field(s, p, sup, "genres", "AttributeError")
      [] name = "score" -> Field(s, p, sup, "score", "AttributeError")
      [] name = "rank" -> Field(s, p, sup, "rank", "IndexError")
      [] name = "popularity" -> Field(s, p, sup, "popularity", "IndexError")
      [] name = "members" -> Field(s, p, sup, "members", "IndexError")
      [] name = "favorites" -> Field(s, p, sup, "favorites", "IndexError")
      [] name = "popular_tags" ->
            IF "no_tags_header" \in p.dev /\ "genres" \in p.dev
            THEN Guarded(s, sup, "AttributeError")
            ELSE Put(s, "popular_tags", Val)
         \* Anime.parse_sidebar, lines 110-178
      [] name = "episodes" ->
            IF "episodes_unknown" \in p.dev THEN Guarded(s, sup, "ValueError")
            ELSE Field(s, p, sup, "episodes", "IndexError")
      [] name = "aired" ->
            IF "aired" \in p.dev THEN Guarded(s, sup, "IndexError")
            ELSE Put(s, "aired", IF "aired_single" \in p.dev THEN OneTuple ELSE Val)
      [] name = "producers" -> Field(s, p, sup, "producers", "IndexError")
      [] name = "duration" -> Field(s, p, sup, "duration", "IndexError")
      [] name = "rating" -> Field(s, p, sup, "rating", "IndexError")
         \* Manga.parse_sidebar, lines 106-173
      [] name = "volumes" ->
            IF "volumes" \in p.dev THEN Guarded(s, sup, "AttributeError")
            ELSE Put(s, "volumes", IF "volumes_unknown" \in p.dev THEN None ELSE Val)
      [] name = "chapters" ->
            IF "chapters" \in p.dev THEN Guarded(s, sup, "AttributeError")
            ELSE Put(s, "chapters", IF "chapters_unknown" \in p.dev THEN None ELSE Val)
      [] name = "published" ->
            IF "published" \in p.dev THEN Guarded(s, sup, "AttributeError")
            ELSE Put(s, "published", IF "published_single" \in p.dev THEN OneTuple ELSE Val)
      [] name = "authors" -> Field(s, p, sup, "authors", "AttributeError")
      [] name = "serialization" ->
            IF "serialization" \in p.dev THEN Guarded(s, sup, "AttributeError")
            ELSE Put(s, "serialization", IF "no_serial_link" \in p.dev THEN None ELSE Val)
         \* Media.parse, lines 423-476
      [] name = "synopsis" -> Field(s, p, sup, "synopsis", "IndexError")
      [] name = "related" ->
            IF "related_truncated" \in p.dev THEN Guarded(s, sup, "NameError")
            ELSE Put(s, "related", RelatedChain(RelatedUnderHeader(p), ParseRelatedMedia(p)))
         \* Media.parse_stats, lines 491-570
      [] name = "status_stats" -> Put(s, "status_stats", Val)
      [] name = "score_stats" -> Put(s, "score_stats", Val)
         \* Media.parse_characters, lines 586-625: characters is set to {} first
      [] name = "media_characters" ->
            IF "bad_char_row" \in p.dev
            THEN Guarded(Put(s, "characters", Val), sup, "AttributeError")
            ELSE IF "no_char_header" \in p.dev
                 THEN Guarded(Put(s, "characters", Val), sup, "IndexError")
                 ELSE Put(s, "characters", Val)
         \* Anime.parse_characters, lines 228-279
      [] name = "anime_characters" ->
            LET t == Put(Put(s, "characters", Val), "voice_actors", Val)
            IN  IF "bad_char_row" \in p.dev THEN Guarded(t, sup, "ValueError") ELSE t
      [] name = "staff" ->
            IF "bad_staff_row" \in p.dev THEN Guarded(s, sup, "IndexError")
            ELSE Put(s, "staff", Val)
         \* Person.parse, lines 85-179
      [] name = "person_name" ->
            IF "no_h1" \in p.dev THEN Guarded(s, sup, "IndexError")
            ELSE IF p.bad THEN Guarded(Put(s, "name", InvalidName), sup, "InvalidPersonError")
            ELSE Put(s, "name", Val)
      [] name = "voice_acting_roles" ->
            IF "no_va_roles" \in p.dev THEN Put(s, "voice_acting_roles", None)
            ELSE IF "bad_va_row" \in p.dev THEN Guarded(s, sup, "AttributeError")
            ELSE Put(s, "voice_acting_roles", Val)
      [] name = "anime_staff_positions" ->
            IF "no_positions_header" \in p.dev THEN Guarded(s, sup, "IndexError")
            ELSE Put(s, "anime_staff_positions", IF "no_positions" \in p.dev THEN None ELSE Val)

\* The blocks run in order until one lets an exception escape.
RECURSIVE RunBlocks(_, _, _, _, _, _, _)
RunBlocks(names, i, s, cls, p, sup, orig) ==
    IF i > Len(names) \/ s.err # NoError THEN s
    ELSE RunBlocks(names, i + 1, Block(names[i], s, cls, p, sup, orig), cls, p, sup, orig)

MediaSidebarBlocks ==
    <<"media_badresult", "media_title_tag", "media_title", "media_info_panel", "picture",
      "alternative_titles", "type", "status", "genres", "score", "rank", "popularity",
      "members", "favorites", "popular_tags">>

AnimeSidebarBlocks ==
    <<"anime_badresult", "anime_title_check">> \o MediaSidebarBlocks
        \o <<"episodes", "aired", "producers", "duration", "rating">>

MangaSidebarBlocks ==
    <<"manga_badresult", "manga_title_check">> \o MediaSidebarBlocks
        \o <<"volumes", "chapters", "published", "authors", "serialization">>

\* self.parse_sidebar dispatches on the class of the object
SidebarBlocks(cls) == IF cls = "Anime" THEN AnimeSidebarBlocks ELSE MangaSidebarBlocks

\* Media.parse: the sidebar, the synopsis, the related media
ParseBlocks(cls) == SidebarBlocks(cls) \o <<"synopsis", "related">>

\* Media.parse_stats: the sidebar (parsed without the original DOM), then the stats
ParseStatsBlocks(cls) == SidebarBlocks(cls) \o <<"status_stats", "score_stats">>

\* parse_characters: Anime overrides Media.parse_characters
ParseCharactersBlocks(cls) ==
    SidebarBlocks(cls) \o
        (IF cls = "Anime" THEN <<"anime_characters", "staff">> ELSE <<"media_characters">>)

\* Person.parse
PersonParseBlocks == <<"person_name", "voice_acting_roles", "anime_staff_positions">>

\* The parser a fetch routine hands its page to, and whether the routine
\* passes the original DOM along (load_stats does not).
Parse(cls, kind, p, sup) ==
    CASE cls = "Person" -> RunBlocks(PersonParseBlocks, 1, StartParse, cls, p, sup, TRUE)
      [] kind = "main" -> RunBlocks(ParseBlocks(cls), 1, StartParse, cls, p, sup, TRUE)
      [] kind = "stats" -> RunBlocks(ParseStatsBlocks(cls), 1, StartParse, cls, p, sup, FALSE)
      [] kind = "characters" ->
            RunBlocks(ParseCharactersBlocks(cls), 1, StartParse, cls, p, sup, TRUE)

(***************************************************************************)
(* Fetch routines.  A run of a routine ends in [obj, err, nreq, page,      *)
(* before]: the object afterwards, the exception that escaped, the number  *)
(* of requests issued, the page the routine fetched for itself, and the    *)
(* cache as it was when that page was fetched.                             *)
(***************************************************************************)
Kinds == {"main", "stats", "characters"}

FetchClasses == MediaClasses \cup {"Person"}

\* The page families and the parsers' results on them, tabulated.
PagesOf == [cls \in FetchClasses |-> [kind \in Kinds |-> Pages(cls, kind)]]

ParseOf ==
    [cls \in FetchClasses |-> [kind \in Kinds |-> [sup \in BOOLEAN |->
        [p \in Pages(cls, kind) |-> Parse(cls, kind, p, sup)]]]]

NotRun(obj) ==
    [obj |-> obj, err |-> NoError, nreq |-> 0, page |-> NoPage, before |-> obj.slots]

\* a fetch that stores what the parser had built when it raised
FetchEager(obj, kind, p, sup, sofar) ==
    LET r == ParseOf[obj.cls][kind][sup][p]
    IN  [obj |-> BaseSet(obj, r.info),
         err |-> r.err, nreq |-> sofar + 1, page |-> p, before |-> obj.slots]

\* a fetch that remembers a failure in the slots it could not fill
FetchNegative(obj, kind, p, sup, sofar) ==
    LET r == ParseOf[obj.cls][kind][sup][p]
    IN  [obj |-> IF r.err = NoError THEN BaseSet(obj, r.info)
                 ELSE [obj EXCEPT !.slots =
                          [k \in DOMAIN obj.slots |->
                              IF obj.slots[k] = None THEN "failed" ELSE obj.slots[k]]],
         err |-> r.err, nreq |-> sofar + 1, page |-> p, before |-> obj.slots]

\* a fetch that takes the id of the resource from the page it got
FetchRenumbered(obj, kind, p, sup, sofar) ==
    LET r == ParseOf[obj.cls][kind][sup][p]
    IN  [obj |-> IF r.err = NoError
                 THEN [BaseSet(obj, r.info) EXCEPT !.ident = [id |-> 0]]
                 ELSE obj,
         err |-> r.err, nreq |-> sofar + 1, page |-> p, before |-> obj.slots]

\* session.session.get(url), then self.set(self.parse...(page)): the cache is
\* updated only when the parser returns.
Fetch(obj, kind, p, sup, sofar) ==
    LET r == ParseOf[obj.cls][kind][sup][p]
    IN  [obj |-> IF r.err = NoError THEN BaseSet(obj, r.info) ELSE obj,
         err |-> r.err, nreq |-> sofar + 1, page |-> p, before |-> obj.slots]

\* Media.load, Person.load
Load(obj, p, sup) == Fetch(obj, "main", p, sup, 0)

\* a title read that loads the main page whether the title is cached or not
ReadTitleAlways(obj, sup) ==
    {[Load(obj, p, sup) EXCEPT !.page = NoPage] : p \in PagesOf[obj.cls]["main"]}

\* The read of self.title inside load_stats and load_characters: title is a
\* loadable attribute backed by load.  The runs it may make, one per page
\* the main-page request may return.
ReadTitle(obj, sup) ==
    IF obj.slots["title"] = None
    THEN {[Load(obj, p, sup) EXCEPT !.page = NoPage] : p \in PagesOf[obj.cls]["main"]}
    ELSE {NotRun(obj)}

\* utilities.urlencode(title) encodes the title string: a title that is still
\* None has no encode method.
UrlencodeError(title) == IF title = None THEN "AttributeError" ELSE NoError

\* a routine that requests its page however the title read ended
LoadWithoutTitle(t, kind, p, sup) == Fetch(t.obj, kind, p, sup, t.nreq)

\* Media.load_stats, Media.load_characters: build the URL from the id and the
\* title (t is the run of the title read), fetch the page, parse it, update
\* the cache.
LoadWithTitle(t, kind, p, sup) ==
    IF t.err # NoError THEN t
    ELSE IF UrlencodeError(t.obj.slots["title"]) # NoError
         THEN [t EXCEPT !.err = UrlencodeError(t.obj.slots["title"])]
         ELSE Fetch(t.obj, kind, p, sup, t.nreq)

LoadStats(t, p, sup) == LoadWithTitle(t, "stats", p, sup)

LoadCharacters(t, p, sup) == LoadWithTitle(t, "characters", p, sup)

\* The fetch routine each loadable attribute names in its decorator.
RoutineOf(cls, attr) ==
    CASE attr \in {"status_stats", "score_stats"} -> "load_stats"
      [] attr \in {"characters", "voice_actors", "staff"} -> "load_characters"
      [] OTHER -> "load"

\* The attributes that are loadable properties (Person has a _published_manga
\* slot and no property for it).
Loadable(cls) ==
    CASE cls = "Anime" -> MediaSlots \cup AnimeSlots
      [] cls = "Manga" -> MediaSlots \cup MangaSlots
      [] cls = "Person" -> PersonSlots \ {"published_manga"}
      [] OTHER -> {}

RoutineKind(routine) ==
    CASE routine = "load" -> "main"
      [] routine = "load_stats" -> "stats"
      [] routine = "load_characters" -> "characters"

\* The runs of the title read a routine starts with: load reads no title.
TitleRuns(obj, routine, sup) ==
    IF routine = "load" THEN {NotRun(obj)} ELSE ReadTitle(obj, sup)

\* Calling a fetch routine by name.
Call(obj, routine, t, p, sup) ==
    CASE routine = "load" -> Load(obj, p, sup)
      [] routine = "load_stats" -> LoadStats(t, p, sup)
      [] routine = "load_characters" -> LoadCharacters(t, p, sup)

\* a read that returns the slot as it is
ReadNever(obj, attr, t, p, sup) == NotRun(obj)

\* loadable(routine): a read of the attribute calls the routine when the slot
\* is None, then returns the slot.
ReadAttr(obj, attr, t, p, sup) ==
    IF obj.slots[attr] = None
    THEN Call(obj, RoutineOf(obj.cls, attr), t, p, sup)
    ELSE NotRun(obj)

\* The runs a read of the attribute may make, one per page each request
\* may return; the page is not kept.
ReadRuns(obj, attr, sup) ==
    {[ReadAttr(obj, attr, t, p, sup) EXCEPT !.page = NoPage] :
        t \in TitleRuns(obj, RoutineOf(obj.cls, attr), sup),
        p \in PagesOf[obj.cls][RoutineKind(RoutineOf(obj.cls, attr))]}

(***************************************************************************)
(* The state machine.  last says what the most recent operation was: the   *)
(* operation, the handle, its class, the constructor argument, the         *)
(* attribute read, how the run ended, and what the operation returned.     *)
(***************************************************************************)
NoArg == [t |-> "NoneType", v |-> 0]

NoRet == "(nothing)"

LastOf(op, h, cls, arg, attr, run, ret) ==
    [op |-> op, h |-> h, cls |-> cls, arg |-> arg, attr |-> attr,
     err |-> run.err, nreq |-> run.nreq, page |-> run.page, before |-> run.before,
     ret |-> ret]

Quiet == [err |-> NoError, nreq |-> 0, page |-> NoPage, before |-> EmptyInfo]

Init ==
    /\ handles = [h \in Handles |-> NoHandle]
    /\ suppress \in BOOLEAN
    /\ requests = 0
    /\ last = LastOf("init", "a", "none", NoArg, "", Quiet, NoRet)

\* h = session.<type>(arg)
Construct(h, cls, arg) ==
    /\ handles[h] = NoHandle
    /\ LET r == New(cls, arg)
       IN  /\ handles' = IF r.err = NoError THEN [handles EXCEPT ![h] = r.obj] ELSE handles
           /\ last' = LastOf("construct", h, cls, arg, "", [Quiet EXCEPT !.err = r.err], NoRet)
    /\ UNCHANGED <<suppress, requests>>

\* The key a parser seeds a nested reference with: title for media, name otherwise.
SeedKey(cls) == IF cls \in MediaClasses THEN "title" ELSE "name"

\* a parser that loads each resource it refers to
SeedLoaded(h, cls, arg) ==
    /\ handles[h] = NoHandle
    /\ LET r == New(cls, arg)
       IN  /\ handles' = IF r.err = NoError
                         THEN [handles EXCEPT ![h] = [r.obj EXCEPT !.slots = Preset(DOMAIN r.obj.slots)]]
                         ELSE handles
           /\ last' = LastOf("seed", h, cls, arg, "", [Quiet EXCEPT !.err = r.err], NoRet)
    /\ requests' = requests + 1
    /\ UNCHANGED suppress

\* A parser of some page builds a reference to this resource:
\* session.<type>(id).set({'title': ...}) or .set({'name': ...})
Seed(h, cls, arg) ==
    /\ handles[h] = NoHandle
    /\ LET r == New(cls, arg)
       IN  /\ handles' = IF r.err = NoError
                         THEN [handles EXCEPT ![h] = BaseSet(r.obj, [k \in {SeedKey(cls)} |-> Val])]
                         ELSE handles
           /\ last' = LastOf("seed", h, cls, arg, "", [Quiet EXCEPT !.err = r.err], NoRet)
    /\ UNCHANGED <<suppress, requests>>

\* h.load(), h.load_stats(), h.load_characters(), given the run t of the
\* title read the routine starts with and the page p its own request gets.
\* The page is kept in last.
LoadPage(h, routine, t, p) ==
    /\ handles[h] # NoHandle
    /\ handles[h].cls \in FetchClasses
    /\ handles[h].cls = "Person" => routine = "load"
    /\ requests < MaxRequests
    /\ LET run == Call(handles[h], routine, t, p, suppress)
       IN  /\ handles' = [handles EXCEPT ![h] = run.obj]
           /\ requests' = requests + run.nreq
           /\ last' = LastOf(routine, h, handles[h].cls, NoArg, "", run, NoRet)
    /\ UNCHANGED suppress

\* A call of a fetch routine, over every page each of its requests may get.
CallRoutine(h, routine) ==
    /\ handles[h] # NoHandle
    /\ handles[h].cls \in FetchClasses
    /\ handles[h].cls = "Person" => routine = "load"
    /\ \E t \in TitleRuns(handles[h], routine, suppress) :
       \E p \in PagesOf[handles[h].cls][RoutineKind(routine)] :
          LoadPage(h, routine, t, p)

\* h.<attr> for a loadable attribute whose slot is set: no routine runs
ReadCached(h, attr) ==
    /\ handles[h] # NoHandle
    /\ attr \in Loadable(handles[h].cls)
    /\ handles[h].slots[attr] # None
    /\ requests < MaxRequests
    /\ last' = LastOf("cached", h, handles[h].cls, NoArg, "", NotRun(handles[h]), NoRet)
    /\ UNCHANGED <<handles, suppress, requests>>

\* h.<attr> for a loadable attribute whose slot is None: its routine runs,
\* and the slot is returned.  last keeps the attribute, how the run ended
\* and the value returned, not the page.
ReadUnset(h, attr) ==
    /\ handles[h] # NoHandle
    /\ attr \in Loadable(handles[h].cls)
    /\ handles[h].slots[attr] = None
    /\ requests < MaxRequests
    /\ \E run \in ReadRuns(handles[h], attr, suppress) :
          /\ handles' = [handles EXCEPT ![h] = run.obj]
          /\ requests' = requests + run.nreq
          /\ last' = LastOf("read", h, handles[h].cls, NoArg, attr, run,
                            IF run.err = NoError THEN run.obj.slots[attr] ELSE NoRet)
    /\ UNCHANGED suppress

\* x == y, hash(x), hash(y) for the objects of two handles
Compare(h, g) ==
    /\ handles[h] # NoHandle
    /\ handles[g] # NoHandle
    /\ last' = LastOf("compare", h, handles[h].cls, NoArg, "", NotRun(handles[h]),
                      [other |-> g, eq |-> Eq(handles[h], handles[g]),
                       hash |-> Hash(handles[h]), otherhash |-> Hash(handles[g])])
    /\ UNCHANGED <<handles, suppress, requests>>

\* A fetch never reads the id it was built with: the resources fetched are
\* those of the smallest valid id, and every invalid argument is tried.
FetchArgs(cls) == {x \in ArgsOf(cls) : ValidId(x) => x.v = 1}

AllSlots == MediaSlots \cup AnimeSlots \cup MangaSlots \cup PersonSlots

Routines == {"load", "load_stats", "load_characters"}

\* One handle, every page: the fetch routines and the attribute reads.
Next ==
    \/ \E cls \in Classes : \E arg \in FetchArgs(cls) : Construct("a", cls, arg)
    \/ \E cls \in IdKeyedClasses : \E arg \in FetchArgs(cls) : Seed("a", cls, arg)
    \/ \E routine \in Routines : CallRoutine("a", routine)
    \/ \E attr \in AllSlots : ReadCached("a", attr)
    \/ \E attr \in AllSlots : ReadUnset("a", attr)

Spec == Init /\ [][Next]_vars

\* the page of a resource that exists, with nothing missing
WellFormed == [bad |-> FALSE, dev |-> {}]

\* Two handles, every constructor argument: construction, seeding, a load of
\* a well-formed page, comparison and hashing.
NextIdentity ==
    \/ \E h \in Handles : \E cls \in Classes : \E arg \in ArgsOf(cls) : Construct(h, cls, arg)
    \/ \E h \in Handles : \E cls \in IdKeyedClasses : \E arg \in IdArgs : Seed(h, cls, arg)
    \/ \E h \in Handles : handles[h] # NoHandle /\ LoadPage(h, "load", NotRun(handles[h]), WellFormed)
    \/ \E h, g \in Handles : Compare(h, g)

SpecIdentity == Init /\ [][NextIdentity]_vars

(***************************************************************************)
(* Media lists.  A list export is [root, error, stats, rows]: whether the  *)
(* document holds the myanimelist root element, an error element and the   *)
(* myinfo stats element, and its entry rows.  A row is [id, code, score]:  *)
(* the series id, the my_status code and the my_score number; its other    *)
(* elements are present.  The mapping a list caches in _list is kept in    *)
(* the entries field of the list object, keyed by the id of the media; a   *)
(* score is <<>> for None and <<n>> for the integer n.                      *)
(***************************************************************************)
MaxScore == 2       \* my_score of a row ranges over 0 .. MaxScore

\* user_status_terms has seven terms, indexed by the codes 0 .. 6
NumStatusTerms == 7

ListedIds == {1, 2}

PyNone == <<>>

PyInt(n) == <<n>>

\* The concrete list classes: type names the session factory and the row
\* element, verb the way the medium is consumed.
ListType(cls) == IF cls = "AnimeList" THEN "anime" ELSE "manga"

ListVerb(cls) == IF cls = "AnimeList" THEN "watch" ELSE "read"

\* getattr(self.session, type): the class the session builds for a type name
SessionClass(type) == IF type = "anime" THEN "Anime" ELSE "Manga"

UpperCase == [c \in {"w", "r"} |-> IF c = "w" THEN "W" ELSE "R"]

\* str.capitalize() on a lower-case word: the first letter in upper case
Capitalize(word) == UpperCase[SubSeq(word, 1, 1)] \o SubSeq(word, 2, Len(word))

\* MediaList.user_status_terms
UserStatusTerms(cls) ==
    <<"Unknown",
      Capitalize(ListVerb(cls)) \o "ing",
      "Completed",
      "On-Hold",
      "Dropped",
      "Unknown",
      "Plan to " \o Capitalize(ListVerb(cls))>>

\* The class attributes Anime and Manga define besides their methods.
MediaClassAttrs(cls) == IF cls \in MediaClasses THEN {"_status_terms", "_consuming_verb"} ELSE {}

\* The rows of the exports: every code of the table and one beyond it.
Rows == [id : {1}, code : 0 .. NumStatusTerms, score : 0 .. MaxScore]

NoEntry == [status |-> "", score |-> PyNone]

\* MediaList.parse_entry_media_attributes: the series dates (a ValueError of
\* the date parser is caught), then the status terms of the media class,
\* read from a media object as .status_terms, then the attributes.
ParseEntryMediaAttributes(obj, row) ==
    IF "status_terms" \notin MediaClassAttrs(SessionClass(ListType(obj.cls)))
    THEN [err |-> "AttributeError", id |-> 0]
    ELSE [err |-> NoError, id |-> row.id]

\* entry_info[u'score'] = int(my_score); 0 becomes None
EntryScore(score) == IF score = 0 THEN PyNone ELSE PyInt(score)

\* entry_info[u'status'] = self.user_status_terms[int(my_status)]
EntryStatus(cls, code) == UserStatusTerms(cls)[code + 1]

\* MediaList.parse_entry: the media of the row, then the entry mapping.
ParseEntry(obj, row) ==
    LET m == ParseEntryMediaAttributes(obj, row)
    IN  IF m.err # NoError THEN [err |-> m.err, media |-> 0, entry |-> NoEntry]
        ELSE IF row.code + 1 > Len(UserStatusTerms(obj.cls))
             THEN [err |-> "IndexError", media |-> 0, entry |-> NoEntry]
             ELSE [err |-> NoError, media |-> m.id,
                   entry |-> [status |-> EntryStatus(obj.cls, row.code),
                              score |-> EntryScore(row.score)]]

NoEntries == [k \in {} |-> NoEntry]

\* for row in list_page.find_all(self.type): list_info[u'list'][media] = entry
RECURSIVE ParseRows(_, _, _, _)
ParseRows(obj, rows, i, entries) ==
    IF i > Len(rows) THEN [err |-> NoError, entries |-> entries]
    ELSE LET r == ParseEntry(obj, rows[i])
         IN  IF r.err # NoError THEN [err |-> r.err, entries |-> NoEntries]
             ELSE ParseRows(obj, rows, i + 1,
                            [k \in DOMAIN entries \cup {r.media} |->
                                IF k = r.media THEN r.entry ELSE entries[k]])

\* MalformedMediaListPageError.__init__: like InvalidMediaListError.__init__
\* it decodes a username that is not unicode.
MalformedMediaListPageErrorInit(arg) ==
    IF arg.t = "unicode" \/ arg.utf8
    THEN "MalformedMediaListPageError"
    ELSE "UnicodeDecodeError"

\* a parser that looks for the stats element before the error element
ParseStatsFirst(obj, doc) ==
    IF ~doc.root
    THEN [err |-> MalformedMediaListPageErrorInit(obj.ctor), entries |-> NoEntries]
    ELSE IF ~doc.stats
         THEN [err |-> "NameError", entries |-> NoEntries]
         ELSE IF doc.error
              THEN [err |-> InvalidMediaListErrorInit(obj.ctor), entries |-> NoEntries]
              ELSE ParseRows(obj, doc.rows, 1, NoEntries)

\* MediaList.parse: the root element, the error element, the stats element
\* (whose raise statement names html, which is not defined), the rows.
ListParse(obj, doc) ==
    IF ~doc.root
    THEN [err |-> MalformedMediaListPageErrorInit(obj.ctor), entries |-> NoEntries]
    ELSE IF doc.error
         THEN [err |-> InvalidMediaListErrorInit(obj.ctor), entries |-> NoEntries]
         ELSE IF ~doc.stats
              THEN [err |-> "NameError", entries |-> NoEntries]
              ELSE ParseRows(obj, doc.rows, 1, NoEntries)

\* The exports a list request may return: no row or one row.
ListDocs ==
    [root : BOOLEAN, error : BOOLEAN, stats : BOOLEAN,
     rows : {<<>>} \cup {<<r>> : r \in Rows}]

\* set({'list': entries}): the slot holds a mapping, kept in the entries field
SetEntries(obj, entries) ==
    LET o == BaseSet(obj, [k \in {"list"} |-> Val])
    IN  [f \in DOMAIN o \cup {"entries"} |-> IF f = "entries" THEN entries ELSE o[f]]

\* a load that commits the stats as soon as they are parsed
ListLoadStatsFirst(obj, doc) ==
    LET r == ListParse(obj, doc)
    IN  [obj |-> IF r.err = NoError
                 THEN SetEntries(BaseSet(obj, [k \in {"stats"} |-> Val]), r.entries)
                 ELSE IF doc.root /\ ~doc.error /\ doc.stats
                      THEN BaseSet(obj, [k \in {"stats"} |-> Val])
                      ELSE obj,
         err |-> r.err, nreq |-> 1, page |-> doc, before |-> obj.slots]

\* MediaList.load: the request, the parse, self.set of what it returned.
ListLoad(obj, doc) ==
    LET r == ListParse(obj, doc)
    IN  [obj |-> IF r.err = NoError
                 THEN SetEntries(BaseSet(obj, [k \in {"stats"} |-> Val]), r.entries)
                 ELSE obj,
         err |-> r.err, nreq |-> 1, page |-> doc, before |-> obj.slots]

\* a filter that keeps the entries whose status differs
SectionOthers(obj, status) ==
    [k \in {j \in DOMAIN obj.entries : obj.entries[j].status # status} |-> obj.entries[k]]

\* MediaList.section on a list whose _list is set:
\* {k: self.list[k] for k in self.list if self.list[k][u'status'] == status}
Section(obj, status) ==
    [k \in {j \in DOMAIN obj.entries : obj.entries[j].status = status} |-> obj.entries[k]]

\* The status strings a caller may ask a section for.
StatusStrings(cls) == {UserStatusTerms(cls)[i] : i \in 1 .. NumStatusTerms} \cup {"Watched"}

\* The mappings a caller may set as the list.
EntryMaps(cls) ==
    UNION {[ids -> [status : {UserStatusTerms(cls)[i] : i \in 1 .. NumStatusTerms},
                    score : {PyNone}]] : ids \in SUBSET ListedIds}

\* h.set({'list': entries}) on a list that holds nothing yet
SetList(h, entries) ==
    /\ handles[h] # NoHandle
    /\ handles[h].cls \in ListClasses
    /\ handles[h].slots["list"] = None
    /\ entries \in EntryMaps(handles[h].cls)
    /\ handles' = [handles EXCEPT ![h] = SetEntries(handles[h], entries)]
    /\ last' = LastOf("set", h, handles[h].cls, NoArg, "", NotRun(handles[h]), NoRet)
    /\ UNCHANGED <<suppress, requests>>

\* h.load() as the first request of the session, the export being doc
LoadList(h, doc) ==
    /\ handles[h] # NoHandle
    /\ handles[h].cls \in ListClasses
    /\ requests = 0
    /\ LET run == ListLoad(handles[h], doc)
       IN  /\ handles' = [handles EXCEPT ![h] = run.obj]
           /\ requests' = requests + run.nreq
           /\ last' = LastOf("load", h, handles[h].cls, NoArg, "", run, NoRet)
    /\ UNCHANGED suppress

\* h.parse_entry(row), before any request
ParseEntryRow(h, row) ==
    /\ handles[h] # NoHandle
    /\ handles[h].cls \in ListClasses
    /\ requests = 0
    /\ LET r == ParseEntry(handles[h], row)
       IN  last' = LastOf("parse_entry", h, handles[h].cls, row, "",
                          [NotRun(handles[h]) EXCEPT !.err = r.err],
                          [media |-> r.media, entry |-> r.entry])
    /\ UNCHANGED <<handles, suppress, requests>>

\* h.section(status) on a list whose _list is set: self.list returns the slot
SectionLoaded(h, status) ==
    /\ handles[h] # NoHandle
    /\ handles[h].cls \in ListClasses
    /\ handles[h].slots["list"] # None
    /\ status \in StatusStrings(handles[h].cls)
    /\ last' = LastOf("section", h, handles[h].cls, NoArg, status, NotRun(handles[h]),
                      Section(handles[h], status))
    /\ UNCHANGED <<handles, suppress, requests>>

\* h.section(status) on a list whose _list is None: self.list runs load
\* first, and the section is taken of what it committed.
SectionUnloaded(h, status) ==
    /\ handles[h] # NoHandle
    /\ handles[h].cls \in ListClasses
    /\ handles[h].slots["list"] = None
    /\ status \in StatusStrings(handles[h].cls)
    /\ requests = 0
    /\ \E run \in {[ListLoad(handles[h], doc) EXCEPT !.page = NoPage] : doc \in ListDocs} :
          /\ handles' = [handles EXCEPT ![h] = run.obj]
          /\ requests' = requests + run.nreq
          /\ last' = LastOf("section", h, handles[h].cls, NoArg, status, run,
                            IF run.err = NoError THEN Section(run.obj, status) ELSE NoEntries)
    /\ UNCHANGED suppress

AllStatusStrings == UNION {StatusStrings(cls) : cls \in ListClasses}

AllEntryMaps == UNION {EntryMaps(cls) : cls \in ListClasses}

\* One list handle: construction, set, load, parse_entry and section.
NextList ==
    \/ \E cls \in ListClasses : \E arg \in UsernameArgs : Construct("a", cls, arg)
    \/ \E entries \in AllEntryMaps : SetList("a", entries)
    \/ \E doc \in ListDocs : LoadList("a", doc)
    \/ \E row \in Rows : ParseEntryRow("a", row)
    \/ \E status \in AllStatusStrings : SectionLoaded("a", status)
    \/ \E status \in AllStatusStrings : SectionUnloaded("a", status)

SpecList == Init /\ [][NextList]_vars

(***************************************************************************)
(* Voice acting roles.  The rows of the Voice Acting Roles table of a      *)
(* person page are [anime, character, role]; the mapping Person.parse      *)
(* builds from them is kept in the roles field of the person object.       *)
(***************************************************************************)
MaxVaRows == 2      \* a person page holds up to MaxVaRows voice acting rows

VaRows == [anime : {1, 2}, character : {1, 2}, role : {"Main", "Supporting"}]

VaRowLists == UNION {[1 .. n -> VaRows] : n \in 0 .. MaxVaRows}

NoRoles == [k \in {} |-> [c \in {} |-> ""]]

\* for va_tag in va_roles_tags: va_roles[anime_obj] = {character_obj: role_tag}
RECURSIVE VoiceActingRoles(_, _, _)
VoiceActingRoles(rows, i, roles) ==
    IF i > Len(rows) THEN roles
    ELSE VoiceActingRoles(rows, i + 1,
            [a \in DOMAIN roles \cup {rows[i].anime} |->
                IF a = rows[i].anime
                THEN [c \in {rows[i].character} |-> rows[i].role]
                ELSE roles[a]])

\* a person page with nothing missing, whose voice acting table holds rows
VoiceActorPage(rows) == [bad |-> FALSE, dev |-> {}, rows |-> rows]

\* Person.load on such a page: the mapping of the roles is stored with the
\* other attributes of the page.
LoadRoles(obj, rows, sup) ==
    LET run == Load(obj, WellFormed, sup)
    IN  [run EXCEPT
            !.obj = [f \in DOMAIN run.obj \cup {"roles"} |->
                        IF f = "roles" THEN VoiceActingRoles(rows, 1, NoRoles)
                        ELSE run.obj[f]],
            !.page = VoiceActorPage(rows)]

\* h.load() of a person, the page holding the given voice acting rows
LoadVoiceActor(h, rows) ==
    /\ handles[h] # NoHandle
    /\ handles[h].cls = "Person"
    /\ requests < MaxRequests
    /\ LET run == LoadRoles(handles[h], rows, suppress)
       IN  /\ handles' = [handles EXCEPT ![h] = run.obj]
           /\ requests' = requests + run.nreq
           /\ last' = LastOf("load", h, "Person", NoArg, "", run, NoRet)
    /\ UNCHANGED suppress

\* One person handle: construction and loads of pages with voice acting rows.
NextRoles ==
    \/ \E arg \in FetchArgs("Person") : Construct("a", "Person", arg)
    \/ \E rows \in VaRowLists : LoadVoiceActor("a", rows)

SpecRoles == Init /\ [][NextRoles]_vars

(***************************************************************************)
(* What a page gives each parser, for stating the properties below.        *)
(***************************************************************************)
\* The attributes Media.parse returns for a page with nothing missing: the
\* sidebar of the class, the synopsis and the related media.
MainFields(cls) ==
    (MediaSlots \ {"characters", "score_stats", "status_stats"})
        \cup (IF cls = "Anime" THEN AnimeSlots \ {"voice_actors", "staff"} ELSE MangaSlots)

\* The deviations named after an attribute: the label that attribute is read
\* from is missing.
OptionalFields(cls) ==
    MainFields(cls) \cap (MediaTokens \cup (IF cls = "Anime" THEN AnimeTokens ELSE MangaTokens))

\* The deviations of a main page that make some block of its parser raise
\* (the others make a block store None).
Unparsable(cls) ==
    CASE cls = "Anime" ->
            (MediaTokens \cup AnimeTokens)
                \ {"no_tags_header", "no_related", "no_related_header", "aired_single"}
      [] cls = "Manga" ->
            (MediaTokens \cup MangaTokens)
                \ {"no_tags_header", "no_related", "no_related_header", "volumes_unknown",
                   "chapters_unknown",
                   "no_serial_link", "published_single"}
      [] cls = "Person" -> {"no_h1", "bad_va_row", "no_positions_header"}

(***************************************************************************)
(* Properties.                                                             *)
(***************************************************************************)

\* C1: constructing an Anime, Manga, Person or MediaList with a valid
\* identity issues no request and leaves every cache slot None, and no
\* request has been issued before a routine is called or an attribute read.
C1_ConstructionIsLazy ==
    /\ last.op \in {"init", "construct", "seed"} => requests = 0
    /\ (last.op = "construct" /\ last.err = NoError
            /\ last.cls \in FetchClasses \cup ListClasses)
          => /\ last.nreq = 0
             /\ \A k \in DOMAIN handles[last.h].slots : handles[last.h].slots[k] = None

C1_Witness ==
    /\ last.op = "construct" /\ last.err = NoError /\ last.cls = "AnimeList"
    /\ handles["a"].slots = [list |-> None, stats |-> None]
    /\ requests = 0

\* C2: when a read of an attribute has completed and the same attribute of
\* the same resource is read again at once, the second read issues no
\* request.
C2_SecondReadIssuesNoRequest ==
    [][(last.op = "read" /\ last.err = NoError
            /\ last'.op = "read" /\ last'.h = last.h /\ last'.attr = last.attr)
          => requests' = requests]_vars

C2_Witness ==
    /\ last.op = "read" /\ last.cls = "Manga" /\ last.attr = "volumes"
    /\ last.err = NoError /\ last.ret = None
    /\ handles["a"].slots["chapters"] = Val
    /\ requests = 1

\* C3: two ID-keyed handles built with the same class and the same id are
\* equal and hash alike whatever each has cached; two built with different
\* ids or different classes are not equal.
C3_EqualityFollowsClassAndId ==
    (last.op = "compare" /\ handles[last.h].cls \in IdKeyedClasses
        /\ handles[last.ret.other].cls \in IdKeyedClasses)
      => IF handles[last.h].cls = handles[last.ret.other].cls
            /\ handles[last.h].ctor.v = handles[last.ret.other].ctor.v
         THEN /\ last.ret.eq = "True"
              /\ last.ret.hash = last.ret.otherhash
              /\ last.ret.hash # <<"AttributeError">>
         ELSE last.ret.eq = "False"

C3_Witness ==
    /\ last.op = "compare" /\ last.h = "a" /\ last.ret.other = "b"
    /\ handles["a"].cls = "Manga" /\ handles["b"].cls = "Manga"
    /\ handles["a"].ctor = handles["b"].ctor
    /\ handles["a"].slots["synopsis"] = Val
    /\ \A k \in DOMAIN handles["b"].slots : handles["b"].slots[k] = None
    /\ last.ret.eq = "True"

\* C4: two media list handles of the same class built with the same username
\* are equal and hash alike.
C4_ListEqualityFollowsUsername ==
    (last.op = "compare" /\ handles[last.h].cls \in ListClasses
        /\ handles[last.ret.other].cls = handles[last.h].cls
        /\ handles[last.ret.other].ctor = handles[last.h].ctor)
      => /\ last.ret.eq = "True"
         /\ last.ret.hash = last.ret.otherhash
         /\ last.ret.hash # <<"AttributeError">>

C4_Witness ==
    /\ last.op = "compare" /\ last.h = "a" /\ last.ret.other = "b"
    /\ handles["a"].cls = "MangaList" /\ handles["b"].cls = "MangaList"
    /\ handles["a"].ctor = handles["b"].ctor
    /\ last.ret.eq = "AttributeError"

\* C5: a constructor given an invalid identity raises the invalid-entity
\* error of its class (InvalidAnimeError, InvalidMangaError,
\* InvalidPersonError, InvalidMediaListError), issues no request and yields
\* no object.
C5_InvalidIdentityRaisesInvalidError ==
    (last.op = "construct" /\ last.cls \in FetchClasses \cup ListClasses
        /\ (IF last.cls \in ListClasses THEN ~ValidUsername(last.arg) ELSE ~ValidId(last.arg)))
      => /\ last.err = (IF last.cls \in ListClasses THEN "InvalidMediaListError"
                        ELSE "Invalid" \o last.cls \o "Error")
         /\ last.nreq = 0
         /\ handles[last.h] = NoHandle

C5_Witness ==
    /\ last.op = "construct" /\ last.cls = "AnimeList"
    /\ last.arg = [t |-> "str", len |-> MinUsernameLen, utf8 |-> FALSE]
    /\ last.err = "UnicodeDecodeError"

\* C6: a call of load, load_stats or load_characters of an Anime or Manga
\* whose page holds the badresult element raises InvalidAnimeError or
\* InvalidMangaError, whatever the suppression flag and whatever else the
\* page lacks, and the cache is what it was when that page was requested.
C6_BadResultRaisesInvalidError ==
    (last.op \in Routines /\ last.cls \in MediaClasses /\ last.page.bad)
      => /\ last.err = "Invalid" \o last.cls \o "Error"
         /\ handles[last.h].slots = last.before

C6_Witness ==
    /\ last.op = "load_characters" /\ last.cls = "Manga" /\ suppress
    /\ last.page.bad /\ last.page.dev = {"no_name_span"}
    /\ last.err = "InvalidMangaError"

\* C7: a load of a Person whose page heading reads Invalid raises
\* InvalidPersonError whatever the suppression flag, and Invalid is not
\* committed as the name.
C7_InvalidPersonRaises ==
    (last.op = "load" /\ last.cls = "Person" /\ last.page.bad)
      => /\ last.err = "InvalidPersonError"
         /\ handles[last.h].slots["name"] # InvalidName

C7_Witness ==
    /\ last.op = "load" /\ last.cls = "Person" /\ last.page.bad /\ suppress
    /\ last.err = NoError
    /\ handles["a"].slots["name"] = InvalidName

\* C8: with suppression on, a load of a media page that lacks the label of
\* exactly one attribute and nothing else completes, commits every other
\* attribute of the page, and leaves the slot of that attribute as it was
\* (None on a resource that had not cached it).
C8_OneMissingFieldLeavesOnlyItUnset ==
    \A k \in AllSlots :
        (last.op = "load" /\ last.cls \in MediaClasses /\ suppress
            /\ k \in OptionalFields(last.cls)
            /\ last.page = [bad |-> FALSE, dev |-> {k}])
          => /\ last.err = NoError
             /\ \A j \in MainFields(last.cls) \ {k} : handles[last.h].slots[j] = Val
             /\ handles[last.h].slots[k] = last.before[k]

C8_Witness ==
    /\ last.op = "load" /\ last.cls = "Anime" /\ suppress
    /\ last.page = [bad |-> FALSE, dev |-> {"favorites"}]
    /\ last.err = NoError
    /\ handles["a"].slots["favorites"] = None
    /\ handles["a"].slots["members"] = Val
    /\ handles["a"].slots["rating"] = Val

\* C9 as stated: with suppression off, a call of load, load_stats or
\* load_characters that raises leaves the resource as it was before the call.
C9_FailedCallLeavesCacheAsBeforeCall ==
    [][(last'.op \in Routines /\ ~suppress /\ last'.err # NoError)
          => handles' = handles]_vars

\* C9: with suppression off, a load of a main page with a field that cannot
\* be parsed raises, and a call of load, load_stats or load_characters that
\* raises commits nothing of the page that failed: the cache is what it was
\* when that page was requested (the fields of the main page a load_stats or
\* load_characters call fetched for the title stay committed).
C9_FailedFetchCommitsNothingOfItsPage ==
    (last.op \in Routines /\ ~suppress)
      => /\ last.err # NoError => handles[last.h].slots = last.before
         /\ (last.op = "load" /\ last.page.dev \cap Unparsable(last.cls) # {})
                => last.err # NoError

C9_Witness ==
    /\ last.op = "load_characters" /\ last.cls = "Anime" /\ ~suppress
    /\ last.page = [bad |-> FALSE, dev |-> {"rating"}]
    /\ last.err = "IndexError" /\ last.nreq = 2
    /\ handles["a"].slots = last.before
    /\ handles["a"].slots["synopsis"] = Val
    /\ handles["a"].slots["characters"] = None

\* C10: with suppression on, a load of an Anime, Manga or Person whose page
\* does not hold the not-found marker completes whatever the page lacks.
C10_SuppressionCoversEveryField ==
    (last.op = "load" /\ suppress /\ ~last.page.bad) => last.err = NoError

C10_Witness ==
    /\ last.op = "load" /\ last.cls = "Manga" /\ suppress
    /\ last.page = [bad |-> FALSE, dev |-> {"no_info_panel"}]
    /\ last.err = "IndexError"
    /\ \A k \in DOMAIN handles["a"].slots : handles["a"].slots[k] = None

\* The error kinds of a resource family: the invalid-entity error and the
\* malformed-page error of the class, and those of Media they derive from.
FamilyErrors(cls) ==
    IF cls \in MediaClasses
    THEN {"Invalid" \o cls \o "Error", "Malformed" \o cls \o "PageError",
          "InvalidMediaError", "MalformedMediaPageError"}
    ELSE {"Invalid" \o cls \o "Error", "Malformed" \o cls \o "PageError"}

\* C11: with suppression off, every error that escapes load, load_stats or
\* load_characters of an Anime, Manga or Person is the invalid-entity error
\* or the malformed-page error of its family, whatever the page holds; no
\* NameError, AttributeError or IndexError escapes.
C11_OnlyFamilyErrorsEscape ==
    (last.op \in Routines /\ ~suppress /\ last.err # NoError)
      => last.err \in FamilyErrors(last.cls)

C11_Witness ==
    /\ last.op = "load" /\ last.cls = "Anime" /\ ~suppress
    /\ last.page = [bad |-> FALSE, dev |-> {"related_truncated"}]
    /\ last.err = "NameError"
    /\ handles["a"].slots = last.before

\* The attributes whose loadable names load_stats or load_characters.
TitledAttrs == {"status_stats", "score_stats", "characters", "voice_actors", "staff"}

\* C12: load_stats and load_characters, called or run by a read of
\* status_stats, score_stats or characters, request their page only when the
\* title is cached.  With no title cached the main page is fetched first, and
\* when that fetch raises (or leaves the title unset) no second request is
\* issued.
C12_TitledRequestNeedsCachedTitle ==
    [][(\/ last'.op \in {"load_stats", "load_characters"}
        \/ (last'.op = "read" /\ last'.attr \in TitledAttrs))
          => IF handles[last'.h].slots["title"] # None
             THEN /\ last'.nreq <= 1
                  /\ last'.before = handles[last'.h].slots
             ELSE /\ last'.nreq \in {1, 2}
                  /\ last'.nreq = 1 => last'.before = handles[last'.h].slots
                  /\ last'.nreq = 2 => /\ last'.before["title"] # None
                                       /\ handles'[last'.h].slots["title"] # None]_vars

C12_Witness ==
    /\ last.op = "read" /\ last.attr = "characters" /\ last.cls = "Manga"
    /\ last.nreq = 2 /\ requests = 2
    /\ last.before["title"] = Val /\ last.before["characters"] = None
    /\ last.err = NoError /\ last.ret = Val

\* C13: a read of status_stats runs load_stats; on a stats page with
\* nothing missing the routine completes without error and leaves both
\* status_stats and score_stats cached (so that a read of score_stats that
\* follows finds its slot set and issues no request).
C13_StatsPageCachesBothStats ==
    (last.op = "load_stats" /\ last.page = WellFormed)
      => /\ last.err = NoError
         /\ handles[last.h].slots["status_stats"] # None
         /\ handles[last.h].slots["score_stats"] # None

C13_Witness ==
    /\ last.op = "load_stats" /\ last.cls = "Anime" /\ last.page = WellFormed
    /\ last.before["title"] = Val /\ last.nreq = 1
    /\ last.err = "AttributeError"
    /\ handles["a"].slots["status_stats"] = None
    /\ handles["a"].slots["score_stats"] = None

\* The identity an error of the resource's family is raised with: the raise
\* statements pass self.id (self.username in a media list); an error of
\* another kind carries none.
Carried(obj, e) ==
    IF obj.cls \in ListClasses
    THEN IF e \in {"InvalidMediaListError", "MalformedMediaListPageError"}
            /\ "username" \in DOMAIN obj.ident
         THEN <<obj.ident["username"]>> ELSE <<>>
    ELSE IF e \in FamilyErrors(obj.cls) /\ "id" \in DOMAIN obj.ident
         THEN <<obj.ident["id"]>> ELSE <<>>

\* C14: with suppression off, a load of a Manga whose page has no title
\* element (no span with itemprop=name, and no badresult element) raises
\* MalformedMangaPageError carrying the id the manga was built with, and
\* commits no attribute.
C14_NonExistentMangaRaisesMalformed ==
    (last.op = "load" /\ last.cls = "Manga" /\ ~suppress
        /\ ~last.page.bad /\ "no_name_span" \in last.page.dev)
      => /\ last.err = "MalformedMangaPageError"
         /\ Carried(handles[last.h], last.err) = <<handles[last.h].ctor.v>>
         /\ handles[last.h].slots = last.before

C14_Witness ==
    /\ last.op = "load" /\ last.cls = "Manga" /\ ~suppress
    /\ last.page = [bad |-> FALSE, dev |-> {"no_name_span"}]
    /\ last.err = "MalformedMangaPageError"
    /\ Carried(handles["a"], last.err) = <<1>>
    /\ \A k \in DOMAIN handles["a"].slots : handles["a"].slots[k] = None

\* C15: a load of a media list whose export lacks the root element, or has
\* the root element and no error element and lacks the stats element, raises
\* MalformedMediaListPageError carrying the username, and commits neither
\* list nor stats.
C15_MissingRootOrStatsRaisesMalformed ==
    (last.op = "load" /\ last.cls \in ListClasses
        /\ (~last.page.root \/ (~last.page.error /\ ~last.page.stats)))
      => /\ last.err = "MalformedMediaListPageError"
         /\ Carried(handles[last.h], last.err) = <<handles[last.h].ctor>>
         /\ handles[last.h].slots = last.before

C15_Witness ==
    /\ last.op = "load" /\ last.cls = "AnimeList"
    /\ last.page = [root |-> TRUE, error |-> FALSE, stats |-> FALSE, rows |-> <<>>]
    /\ last.err = "NameError"
    /\ handles["a"].slots = [list |-> None, stats |-> None]

\* C16: a load of a media list whose export holds the root element together
\* with an error element raises InvalidMediaListError carrying the username,
\* never MalformedMediaListPageError, also when the stats element is
\* missing, and commits neither list nor stats.
C16_ErrorElementRaisesInvalidList ==
    (last.op = "load" /\ last.cls \in ListClasses /\ last.page.root /\ last.page.error)
      => /\ last.err = "InvalidMediaListError"
         /\ Carried(handles[last.h], last.err) = <<handles[last.h].ctor>>
         /\ handles[last.h].slots = last.before

C16_Witness ==
    /\ last.op = "load" /\ last.cls = "MangaList"
    /\ last.page.root /\ last.page.error /\ ~last.page.stats
    /\ last.err = "InvalidMediaListError"
    /\ handles["a"].slots = [list |-> None, stats |-> None]
    /\ requests = 1

\* The table of the specification: the status of a code, for a list whose
\* verb is watch and for one whose verb is read.
StatusTable(cls) ==
    IF cls = "AnimeList"
    THEN <<"Unknown", "Watching", "Completed", "On-Hold", "Dropped", "Unknown", "Plan to Watch">>
    ELSE <<"Unknown", "Reading", "Completed", "On-Hold", "Dropped", "Unknown", "Plan to Read">>

\* C17: parse_entry of a row whose my_status code c is in 0 .. 6 yields an
\* entry whose status is the c-th term of Unknown, <Verb>ing, Completed,
\* On-Hold, Dropped, Unknown, Plan to <Verb>, with the verb of the list.
C17_StatusIsTermOfCode ==
    (last.op = "parse_entry" /\ last.arg.code \in 0 .. 6)
      => /\ last.err = NoError
         /\ last.ret.entry.status = StatusTable(last.cls)[last.arg.code + 1]

C17_Witness ==
    /\ last.op = "parse_entry" /\ last.cls = "MangaList"
    /\ last.arg.code = 1
    /\ last.err = "AttributeError"
    /\ last.ret.entry = NoEntry

\* C18: parse_entry of a row (with a status code of the table) yields an
\* entry whose score is None when
\* my_score is 0 and the integer my_score otherwise, never the number 0.
C18_ScoreZeroIsNone ==
    (last.op = "parse_entry" /\ last.arg.code \in 0 .. 6)
      => /\ last.err = NoError
         /\ last.ret.entry.score = (IF last.arg.score = 0 THEN PyNone ELSE PyInt(last.arg.score))
         /\ last.ret.entry.score # PyInt(0)

C18_Witness ==
    /\ last.op = "parse_entry" /\ last.cls = "AnimeList"
    /\ last.arg.score = MaxScore /\ last.arg.code = 2
    /\ last.err = "AttributeError"
    /\ last.ret.entry.score = PyNone

\* The export of C19: the root element, the stats element, no error element
\* and one row with status code 2 and score 0.
MinimalExport ==
    [root |-> TRUE, error |-> FALSE, stats |-> TRUE,
     rows |-> <<[id |-> 1, code |-> 2, score |-> 0]>>]

\* C19: parsing the minimal export completes without error and yields a
\* list mapping with exactly one media key, whose entry has the status
\* Completed and the score None.
C19_MinimalExportParses ==
    (last.op = "load" /\ last.cls \in ListClasses /\ last.page = MinimalExport)
      => /\ last.err = NoError
         /\ handles[last.h].slots["list"] # None
         /\ handles[last.h].entries = (1 :> [status |-> "Completed", score |-> PyNone])

C19_Witness ==
    /\ last.op = "load" /\ last.cls = "AnimeList" /\ last.page = MinimalExport
    /\ last.err = "AttributeError"
    /\ handles["a"].slots = [list |-> None, stats |-> None]
    /\ requests = 1

\* C20: section(s) on a media list whose list is cached returns exactly the
\* entries of the list whose status equals s, changes nothing of the list
\* and issues no request.
C20_SectionFiltersByStatus ==
    [][(last'.op = "section" /\ handles[last'.h].slots["list"] # None)
          => /\ last'.err = NoError
             /\ handles' = handles
             /\ requests' = requests
             /\ DOMAIN last'.ret =
                    {k \in DOMAIN handles[last'.h].entries :
                        handles[last'.h].entries[k].status = last'.attr}
             /\ \A k \in DOMAIN last'.ret : last'.ret[k] = handles[last'.h].entries[k]]_vars

C20_Witness ==
    /\ last.op = "section" /\ last.cls = "AnimeList" /\ last.attr = "Completed"
    /\ last.nreq = 0 /\ requests = 0
    /\ handles["a"].entries =
          (1 :> [status |-> "Completed", score |-> PyNone]
              @@ 2 :> [status |-> "Dropped", score |-> PyNone])
    /\ last.ret = (1 :> [status |-> "Completed", score |-> PyNone])

\* The identity attribute a constructor stores, from its argument.
IdentityGiven(obj) ==
    IF obj.cls \in ListClasses THEN [username |-> obj.ctor] ELSE [id |-> obj.ctor.v]

C22_UnknownEpisodesIsNone ==
    (last.op = "load" /\ last.cls = "Anime"
        /\ last.page = [bad |-> FALSE, dev |-> {"episodes_unknown"}]
        /\ last.before["episodes"] = None)
      => /\ last.err = NoError
         /\ handles[last.h].slots["episodes"] = None

C22_Witness ==
    /\ last.op = "load" /\ last.cls = "Anime" /\ ~suppress
    /\ last.page = [bad |-> FALSE, dev |-> {"episodes_unknown"}]
    /\ last.err = "ValueError"
    /\ handles["a"].slots["episodes"] = None
    /\ handles["a"].slots["title"] = None

\* C23: aired of an Anime and published of a Manga, once set by a load, is
\* a tuple of length 2 (start, None) or (start, end), never a tuple of
\* another length; a page that gives a single date yields (date, None).
C23_DateRangeIsPair ==
    (last.op = "load" /\ last.cls \in MediaClasses /\ last.err = NoError)
      => /\ last.cls = "Anime" => handles[last.h].slots["aired"] # OneTuple
         /\ last.cls = "Manga" => handles[last.h].slots["published"] # OneTuple

C23_Witness ==
    /\ last.op = "load" /\ last.cls = "Manga" /\ last.err = NoError
    /\ last.page = [bad |-> FALSE, dev |-> {"published_single"}]
    /\ handles["a"].slots["published"] = OneTuple
    /\ handles["a"].slots["authors"] = Val

\* C24: a load issues exactly one request, the page of the loading
\* resource; a resource a parser refers to (genre, publication, character,
\* person, related media) is built without a request and has only its
\* seeded name or title slot set, every other slot unset.
C24_ParsingOnlyBuildsReferences ==
    [][/\ last'.op = "load" => requests' = requests + 1 /\ last'.nreq = 1
       /\ last'.op = "seed"
            => /\ requests' = requests
               /\ last'.err = NoError
                    => \A k \in DOMAIN handles'[last'.h].slots :
                          handles'[last'.h].slots[k] =
                              (IF k = SeedKey(last'.cls) THEN Val ELSE None)]_vars

C24_Witness ==
    /\ last.op = "seed" /\ last.cls = "Publication" /\ last.err = NoError
    /\ handles["a"].slots = [name |-> Val]
    /\ requests = 0

\* C25: after a load of a person, voice_acting_roles holds, for every row
\* of the voice acting table, the character of the row under the anime of
\* the row: an anime with k rows of distinct characters has all k pairs.
C25_EveryVoiceActingRowIsKept ==
    (last.op = "load" /\ last.cls = "Person" /\ last.err = NoError)
      => \A i \in 1 .. Len(last.page.rows) :
            /\ last.page.rows[i].anime \in DOMAIN handles[last.h].roles
            /\ last.page.rows[i].character
                    \in DOMAIN handles[last.h].roles[last.page.rows[i].anime]

C25_Witness ==
    /\ last.op = "load" /\ last.cls = "Person" /\ last.err = NoError
    /\ last.page.rows = <<[anime |-> 1, character |-> 1, role |-> "Main"],
                          [anime |-> 1, character |-> 2, role |-> "Supporting"]>>
    /\ handles["a"].roles = (1 :> (2 :> "Supporting"))
    /\ handles["a"].slots["voice_acting_roles"] = Val

\* C26: in a load that completes, the related media found under the
\* "Related <Type>" header are the committed value of related whenever the
\* header is there; the related table is read only when the header is
\* missing, and related is None only when both are missing.
C26_RelatedIsOrderedFallback ==
    (last.op = "load" /\ last.cls \in MediaClasses /\ last.err = NoError
        /\ "related_truncated" \notin last.page.dev)
      => handles[last.h].slots["related"] =
            (IF "no_related" \in last.page.dev THEN None
             ELSE IF "no_related_header" \in last.page.dev THEN FromTable
             ELSE Val)

C26_Witness ==
    /\ last.op = "load" /\ last.cls = "Anime" /\ last.err = NoError
    /\ last.page = [bad |-> FALSE, dev |-> {"no_related_header"}]
    /\ handles["a"].slots["related"] = FromTable
    /\ handles["a"].slots["synopsis"] = Val

\* C27: a read of a loadable attribute runs its fetch routine exactly when
\* the slot is None at the read: a read of a slot that is set issues no
\* request and changes nothing, a read of a slot that is None issues a
\* request; so after a read that completed and returned None the slot is
\* still None and the next read of the attribute issues a request again.
C27_ReadFetchesIffSlotIsNone ==
    [][/\ last'.op = "cached" => requests' = requests /\ handles' = handles
       /\ last'.op = "read"
            => /\ handles[last'.h].slots[last'.attr] = None
               /\ requests' > requests
       /\ (last.op = "read" /\ last.err = NoError /\ last.ret = None)
            => /\ handles[last.h].slots[last.attr] = None
               /\ (last'.op = "read" /\ last'.attr = last.attr) => requests' > requests]_vars

C27_Witness ==
    /\ last.op = "read" /\ last.cls = "Person" /\ last.attr = "voice_acting_roles"
    /\ last.err = NoError /\ last.ret = None
    /\ handles["a"].slots["name"] = Val
    /\ handles["a"].slots["voice_acting_roles"] = None
    /\ requests = 1

\* The attributes the main page of a resource with nothing missing fills.
PageFields(cls) ==
    IF cls = "Person" THEN {"name", "voice_acting_roles", "anime_staff_positions"}
    ELSE MainFields(cls)

\* C28: with suppression off, a load that raises leaves the resource as it
\* was (no attribute of the page is set, nothing records the failure), a
\* read of an unset attribute of that page that follows issues the request
\* again, and a load of a page with nothing missing that follows fills
\* every attribute of the page.
C28_NoNegativeCaching ==
    [][/\ (last'.op = "load" /\ ~suppress /\ last'.err # NoError)
            => handles' = handles /\ requests' = requests + 1
       /\ (last.op = "load" /\ ~suppress /\ last.err # NoError
              /\ last'.op = "read" /\ last'.attr \in PageFields(last.cls))
            => requests' > requests
       /\ (last.op = "load" /\ ~suppress /\ last.err # NoError
              /\ last'.op = "load" /\ last'.err = NoError /\ last'.page = WellFormed)
            => \A k \in PageFields(last.cls) : handles'[last'.h].slots[k] = Val]_vars

C28_Witness ==
    /\ last.op = "load" /\ last.cls = "Person" /\ ~suppress
    /\ last.page = [bad |-> FALSE, dev |-> {"no_positions_header"}]
    /\ last.err = "IndexError"
    /\ \A k \in DOMAIN handles["a"].slots : handles["a"].slots[k] = None
    /\ requests = 1

\* A media resource as the parser of another page leaves it: the title set,
\* every other attribute unset.
SeededByParser(obj) ==
    /\ obj # NoHandle
    /\ obj.cls \in MediaClasses
    /\ obj.slots["title"] = Val
    /\ \A k \in DOMAIN obj.slots \ {"title"} : obj.slots[k] = None

\* C29: on a media resource whose title a parser seeded, a read of
\* characters, status_stats or score_stats issues exactly one request (the
\* page of its own routine, no main page), and the title the request is
\* built from is the seeded one, which the read leaves as it was.
C29_SeededTitleSparesMainPage ==
    [][(/\ SeededByParser(handles[last'.h])
        /\ last'.op = "read"
        /\ last'.attr \in {"characters", "status_stats", "score_stats"})
          => /\ requests' = requests + 1
             /\ last'.nreq = 1
             /\ last'.before["title"] = handles[last'.h].slots["title"]
             /\ UrlencodeError(last'.before["title"]) = NoError
             /\ handles'[last'.h].slots["title"] = handles[last'.h].slots["title"]]_vars

C29_Witness ==
    /\ last.op = "read" /\ last.cls = "Manga" /\ last.attr = "characters"
    /\ last.err = NoError /\ last.nreq = 1 /\ requests = 1
    /\ last.before["title"] = Val
    /\ \A k \in DOMAIN last.before \ {"title"} : last.before[k] = None
    /\ handles["a"].slots["characters"] = Val
    /\ handles["a"].slots["status"] = None

\* An export whose root and stats elements are there and that reports no
\* error: parse gets as far as the rows.
ReachesRows(doc) == doc.root /\ ~doc.error /\ doc.stats

\* C30: a list load that meets a row parse_entry raises on (a my_status code
\* above 6 among them) raises, whatever the suppression flag; a load that
\* raises leaves list and stats as they were; a load that returns has set
\* both.
C30_ListLoadIsAllOrNothing ==
    (last.op = "load" /\ last.cls \in ListClasses)
        => /\ (/\ ReachesRows(last.page)
               /\ \E i \in DOMAIN last.page.rows :
                     ParseEntry(handles[last.h], last.page.rows[i]).err # NoError)
                 => last.err # NoError
           /\ last.err # NoError
                 => /\ handles[last.h].slots = last.before
                    /\ handles[last.h].slots["stats"] = None
           /\ last.err = NoError
                 => /\ handles[last.h].slots["list"] = Val
                    /\ handles[last.h].slots["stats"] = Val

C30_Witness ==
    /\ last.op = "load" /\ last.cls = "AnimeList" /\ suppress
    /\ ReachesRows(last.page)
    /\ Len(last.page.rows) = 1
    /\ last.page.rows[1].code = NumStatusTerms
    /\ last.err # NoError
    /\ handles["a"].slots["list"] = None
    /\ handles["a"].slots["stats"] = None
    /\ requests = 1

====
